---- MODULE Spec2Model ----
(***************************************************************************)
(* Model of krotov/convergence.py: the check_convergence predicates        *)
(* value_below, delta_below, check_monotonic_error,                        *)
(* check_monotonic_fidelity and the combinator Or, called by an            *)
(* optimization loop on a Result whose info_vals grows by one value per    *)
(* iteration.                                                              *)
(*                                                                         *)
(* Floats are modelled by integers.  Python strings are sequences of       *)
(* pieces (a piece is a character or a longer literal fragment), so that   *)
(* "%s < %s" is concatenation and float(str) is a digit parser.            *)
(***************************************************************************)
EXTENDS Integers, Sequences, FiniteSets, TLC

\* Longest info_vals the loop builds.
MaxLen == 2
\* info_vals entries range over 0..MaxVal.
MaxVal == 2
\* Largest number of functions given to Or.
MaxFuncs == 2

VARIABLES
    info_vals,  \* Result.info_vals: the series the loop appends to
    callee,     \* the check_convergence function of the most recent call
    outcome,    \* how that call ended: a returned value or a raised error
    invoked,    \* for Or: the positions in funcs that were invoked, in order
    op,         \* the loop's last step: "init", "append" or "call"
    repeated    \* TRUE when the last call repeated the one before it

vars == <<info_vals, callee, outcome, invoked, op, repeated>>

----------------------------------------------------------------------------
(* Python values                                                           *)

None == [t |-> "None"]
Num(n) == [t |-> "num", n |-> n]
Str(s) == [t |-> "str", s |-> s]
Exc(cls, msg, site) == [t |-> "exc", cls |-> cls, msg |-> msg, site |-> site]

\* How a call ends, and the source line it ends at.
Return(v, line) == [kind |-> "return", val |-> v, line |-> line]
Raise(e, line) == [kind |-> "raise", val |-> e, line |-> line]

Digits == <<"0", "1", "2", "3", "4", "5", "6", "7", "8", "9">>

DigitVal(c) == (CHOOSE i \in 1..10 : Digits[i] = c) - 1

RECURSIVE ParseDigits(_)
ParseDigits(s) ==
    IF Len(s) = 0 THEN 0
    ELSE 10 * ParseDigits(SubSeq(s, 1, Len(s) - 1)) + DigitVal(s[Len(s)])

\* float(limit): a number is taken as it is, a string is parsed.
float(limit) ==
    IF limit.t = "num" THEN limit.n
    ELSE IF Head(limit.s) = "-" THEN 0 - ParseDigits(Tail(limit.s))
    ELSE ParseDigits(limit.s)

RECURSIVE NatToStr(_)
NatToStr(n) ==
    IF n < 10 THEN <<Digits[n + 1]>>
    ELSE NatToStr(n \div 10) \o <<Digits[(n % 10) + 1]>>

\* "%s" % x
str(x) ==
    IF x.t = "str" THEN x.s
    ELSE IF x.n < 0 THEN <<"-">> \o NatToStr(0 - x.n)
    ELSE NatToStr(x.n)

\* "%s < %s" % (name, limit)
fmt_below(name, limit) == Str(str(name) \o <<" < ">> \o str(limit))

abs(d) == IF d < 0 THEN 0 - d ELSE d

xor(a, b) == (a /\ ~b) \/ (~a /\ b)

----------------------------------------------------------------------------
(* glom specifications and their evaluation                                *)

\* ('info_vals', glom.T[idx]) with idx = -1 or -2
T(idx) == [kind |-> "T", idx |-> idx]
\* a callable spec (or a spec with a default) that yields v for any Result
Callable(v) == [kind |-> "callable", ret |-> v]
\* a callable spec that raises an error of class cls
Raising(cls) == [kind |-> "raising", cls |-> cls]

\* str(spec), used for default names
spec_repr(spec) ==
    IF spec.kind = "T"
    THEN Str(<<"('info_vals', T[">> \o str(Num(spec.idx)) \o <<"])">>)
    ELSE Str(<<"<function>">>)

\* glom.glom(result, spec): the value, or the error raised.  site names the
\* call that raised, so that two errors of equal content stay distinct.
\* A T[idx] that is out of range fails with glom's PathAccessError, which
\* is a GlomError.
glom(result, spec, site) ==
    IF spec.kind = "T"
    THEN IF Len(result) + spec.idx + 1 >= 1
         THEN [raised |-> FALSE, v |-> result[Len(result) + spec.idx + 1]]
         ELSE [raised |-> TRUE,
               exc |-> Exc("GlomError", <<"info_vals", "T[">> \o str(Num(spec.idx)) \o <<"]">>, site)]
    ELSE IF spec.kind = "callable"
    THEN [raised |-> FALSE, v |-> spec.ret]
    ELSE [raised |-> TRUE, exc |-> Exc(spec.cls, <<"spec">>, site)]

\* except (AttributeError, KeyError, IndexError, glom.GlomError)
Catchable == {"AttributeError", "KeyError", "IndexError", "GlomError"}

----------------------------------------------------------------------------
(* value_below                                                             *)

resolve_name(name, default) == IF name = None THEN default ELSE name

ValueBelow(limit, spec, name) ==
    [kind |-> "value_below", limit |-> limit, spec |-> spec,
     name |-> resolve_name(name, spec_repr(spec))]

\* v < float(limit), for numbers (LessEq: the comparison were it not strict)
LessEq(v, l) == v <= l
Less(v, l) == v < l

\* the body of check_convergence once glom has ended as r
value_compare(p, r) ==
    IF r.raised THEN Raise(r.exc, 132)
    ELSE IF r.v.t # "num"
    THEN Raise(Exc("TypeError", <<"'<' not supported">>, "v"), 133)
    ELSE IF Less(r.v.n, float(p.limit))
    THEN Return(fmt_below(p.name, p.limit), 134)
    ELSE Return(None, 136)

value_below(p, result) == value_compare(p, glom(result, p.spec, "v"))

----------------------------------------------------------------------------
(* delta_below                                                             *)

DeltaBelow(limit, spec1, spec0, absolute_value, name) ==
    [kind |-> "delta_below", limit |-> limit, spec1 |-> spec1,
     spec0 |-> spec0, absolute_value |-> absolute_value,
     name |-> resolve_name(name,
                Str(<<"Δ(">> \o spec_repr(spec1).s \o <<",">>
                    \o spec_repr(spec0).s \o <<")">>))]

\* One try/except block: the value bound to v1 (or v0), the error captured,
\* and whether the error was of a class the except clause does not catch.
except(r) ==
    IF ~r.raised THEN [v |-> r.v, exc |-> None, uncaught |-> FALSE]
    ELSE IF r.exc.cls \in Catchable
    THEN [v |-> None, exc |-> r.exc, uncaught |-> FALSE]
    ELSE [v |-> None, exc |-> r.exc, uncaught |-> TRUE]

try_glom(result, spec, site) == except(glom(result, spec, site))

\* delayed_exc after both blocks: the second block overwrites the first
\* (first_captured: were the first error kept instead).
first_captured(e1, e0) == IF e1 # None THEN e1 ELSE e0
last_captured(e1, e0) == IF e0 # None THEN e0 ELSE e1

\* the operands of xor: (v1 is None), (v0 is None)
\* (extraction_failed: were the gate to go by the captured error instead)
extraction_failed(a) == a.exc # None
is_None(a) == a.v = None

\* if absolute_value: delta = abs(delta)
\* (always_abs: were the flag ignored)
always_abs(delta, absolute_value) == abs(delta)
apply_abs(delta, absolute_value) ==
    IF absolute_value THEN abs(delta) ELSE delta

\* the comparison of the difference with the limit
delta_compare(p, v1, v0) ==
    IF v1.t # "num" \/ v0.t # "num"
    THEN Raise(Exc("TypeError", <<"unsupported operand type(s) for -">>, "delta"), 217)
    ELSE IF Less(apply_abs(v1.n - v0.n, p.absolute_value), float(p.limit))
    THEN Return(fmt_below(p.name, p.limit), 221)
    ELSE Return(None, 223)

\* the body of check_convergence once the two try blocks have ended as a1, a0
delta_gate(p, a1, a0, delayed_exc) ==
    IF a1.uncaught THEN Raise(a1.exc, 198)
    ELSE IF a0.uncaught THEN Raise(a0.exc, 203)
    ELSE IF xor(is_None(a1), is_None(a0)) THEN Return(None, 210)
    ELSE IF delayed_exc # None THEN Raise(delayed_exc, 216)
    ELSE delta_compare(p, a1.v, a0.v)

delta_tries(p, a1, a0) == delta_gate(p, a1, a0, last_captured(a1.exc, a0.exc))

delta_below(p, result) ==
    delta_tries(p, try_glom(result, p.spec1, "v1"),
                   try_glom(result, p.spec0, "v0"))

----------------------------------------------------------------------------
(* monotonicity checks                                                     *)

monotonic_convergence ==
    DeltaBelow(Num(0), T(-2), T(-1), FALSE,
               Str(<<"Loss of monotonic convergence; error decrease">>))

monotonic_fidelity ==
    DeltaBelow(Num(0), T(-1), T(-2), FALSE,
               Str(<<"Loss of monotonic convergence; fidelity increase">>))

check_monotonic_error(result) == delta_below(monotonic_convergence, result)

check_monotonic_fidelity(result) == delta_below(monotonic_fidelity, result)

CheckMonotonicError == [kind |-> "check_monotonic_error"]
CheckMonotonicFidelity == [kind |-> "check_monotonic_fidelity"]

----------------------------------------------------------------------------
(* Or                                                                      *)

\* Functions a caller may hand to Or besides the ones of this module: one
\* that returns a fixed value, one that raises.
UserFunc(ret) == [kind |-> "user", ret |-> ret]
UserRaises(cls) == [kind |-> "user_raises", cls |-> cls]

\* func(result) for the functions Or is given
EvalFunc(p, result) ==
    CASE p.kind = "value_below" -> value_below(p, result)
      [] p.kind = "delta_below" -> delta_below(p, result)
      [] p.kind = "check_monotonic_error" -> check_monotonic_error(result)
      [] p.kind = "check_monotonic_fidelity" -> check_monotonic_fidelity(result)
      [] p.kind = "user" -> Return(p.ret, 0)
      [] p.kind = "user_raises" -> Raise(Exc(p.cls, <<"user">>, "user"), 0)

\* bool(msg) is True (is_not_None: were the test "msg is not None")
is_not_None(msg) == msg # None
bool_is_True(msg) ==
    CASE msg.t = "None" -> FALSE
      [] msg.t = "str" -> Len(msg.s) > 0
      [] msg.t = "num" -> msg.n # 0

\* funcs[i] was invoked and the loop went on to end as rest did.
AfterInvoking(i, rest) ==
    [out |-> rest.out, invoked |-> <<i>> \o rest.invoked]

\* The for loop of Or's check_convergence from position i on: the outcome
\* and the positions invoked.
RECURSIVE OrLoop(_, _, _)

\* One pass of the loop body, func(result) having ended as msg
\* (OrBodySwallowing: were an error of func taken as a falsy result).
OrBodySwallowing(funcs, i, result, msg) ==
    IF msg.kind = "return" /\ bool_is_True(msg.val)
    THEN [out |-> Return(msg.val, 78), invoked |-> <<i>>]
    ELSE AfterInvoking(i, OrLoop(funcs, i + 1, result))

OrBody(funcs, i, result, msg) ==
    IF msg.kind = "raise" THEN [out |-> msg, invoked |-> <<i>>]
    ELSE IF bool_is_True(msg.val)
    THEN [out |-> Return(msg.val, 78), invoked |-> <<i>>]
    ELSE AfterInvoking(i, OrLoop(funcs, i + 1, result))

OrLoop(funcs, i, result) ==
    IF i > Len(funcs) THEN [out |-> Return(None, 79), invoked |-> <<>>]
    ELSE OrBody(funcs, i, result, EvalFunc(funcs[i], result))

Or(funcs) == [kind |-> "Or", funcs |-> funcs]

\* check_convergence(result) for any function of this module
Eval(p, result) ==
    IF p.kind = "Or" THEN OrLoop(p.funcs, 1, result)
    ELSE [out |-> EvalFunc(p, result), invoked |-> <<>>]

----------------------------------------------------------------------------
(* The inputs                                                              *)

Values == {Num(n) : n \in 0..MaxVal}

SpecPool ==
    {T(-1), T(-2), Callable(None), Callable(Num(1)),
     Raising("KeyError"), Raising("TypeError")}

LimitPool == {Num(0), Num(1), Str(<<"1">>), Str(<<"0", "1">>)}

NamePool == {None, Str(<<"J_T">>)}

ValueBelowPool ==
    {ValueBelow(l, s, n) : l \in LimitPool, s \in SpecPool, n \in NamePool}

DeltaBelowPool ==
    {DeltaBelow(l, s[1], s[2], a, n) :
        l \in LimitPool, s \in SpecPool \X SpecPool, a \in BOOLEAN,
        n \in NamePool}

OrFuncPool ==
    {CheckMonotonicError, CheckMonotonicFidelity,
     ValueBelow(Str(<<"1">>), T(-1), Str(<<"J_T">>)),
     DeltaBelow(Num(1), T(-1), T(-2), TRUE, Str(<<"ΔJ_T">>)),
     UserFunc(None), UserFunc(Str(<<>>)), UserFunc(Str(<<"stop">>)),
     UserRaises("ValueError")}

OrPool == {Or(fs) : fs \in UNION {[1..n -> OrFuncPool] : n \in 0..MaxFuncs}}

NoCall == [kind |-> "none"]

----------------------------------------------------------------------------
(* The loop                                                                *)

Init ==
    /\ info_vals = <<>>
    /\ callee = NoCall
    /\ outcome = Return(None, 0)
    /\ invoked = <<>>
    /\ op = "init"
    /\ repeated = FALSE

\* The loop records the value of an iteration.
AppendValue ==
    /\ Len(info_vals) < MaxLen
    /\ \E v \in Values : info_vals' = Append(info_vals, v)
    /\ callee' = NoCall
    /\ outcome' = Return(None, 0)
    /\ invoked' = <<>>
    /\ op' = "append"
    /\ repeated' = FALSE

\* (CallConsuming: were the call to drop the last entry of info_vals.)
CallConsuming(p, r) ==
    /\ callee' = p
    /\ outcome' = r.out
    /\ invoked' = r.invoked
    /\ info_vals' = IF Len(info_vals) > 0
                    THEN SubSeq(info_vals, 1, Len(info_vals) - 1)
                    ELSE info_vals
    /\ repeated' = (op = "call")
    /\ op' = "call"

\* A call of check_convergence p on the Result that ends as r.
CallEnds(p, r) ==
    /\ callee' = p
    /\ outcome' = r.out
    /\ invoked' = r.invoked
    /\ info_vals' = info_vals
    /\ repeated' = (op = "call")
    /\ op' = "call"

Call(p) == CallEnds(p, Eval(p, info_vals))

\* The loop calls its check_convergence once the Result is up to date.
CallValueBelow == op # "call" /\ \E p \in ValueBelowPool : Call(p)

CallDeltaBelow == op # "call" /\ \E p \in DeltaBelowPool : Call(p)

CallCheckMonotonicError == op # "call" /\ Call(CheckMonotonicError)

CallCheckMonotonicFidelity == op # "call" /\ Call(CheckMonotonicFidelity)

CallOr == op # "call" /\ \E p \in OrPool : Call(p)

\* The same function is called again on the unchanged Result.
CallAgain == op = "call" /\ Call(callee)

Next ==
    \/ AppendValue
    \/ CallValueBelow
    \/ CallDeltaBelow
    \/ CallCheckMonotonicError
    \/ CallCheckMonotonicFidelity
    \/ CallOr
    \/ CallAgain

Spec == Init /\ [][Next]_vars

----------------------------------------------------------------------------
(* Vocabulary of the properties                                            *)

Called == op = "call"

DeltaKinds ==
    {"delta_below", "check_monotonic_error", "check_monotonic_fidelity"}

\* The arguments delta_below was constructed with to give p.
DeltaCfg(p) ==
    CASE p.kind = "check_monotonic_error" -> monotonic_convergence
      [] p.kind = "check_monotonic_fidelity" -> monotonic_fidelity
      [] OTHER -> p

CalledDelta == Called /\ callee.kind \in DeltaKinds

\* The two extractions of the last call, taken on their own.
R1 == glom(info_vals, DeltaCfg(callee).spec1, "v1")
R0 == glom(info_vals, DeltaCfg(callee).spec0, "v0")

FailsCatchable(r) == r.raised /\ r.exc.cls \in Catchable
Succeeds(r) == ~r.raised
SucceedsWithNumber(r) == ~r.raised /\ r.v.t = "num"

\* The limits of LimitPool as numbers and as the text they were supplied in.
ExpectedLimit(l) ==
    CASE l = Num(0) -> 0
      [] l = Num(1) -> 1
      [] l = Str(<<"1">>) -> 1
      [] l = Str(<<"0", "1">>) -> 1

SuppliedText(l) ==
    CASE l = Num(0) -> <<"0">>
      [] l = Num(1) -> <<"1">>
      [] l = Str(<<"1">>) -> <<"1">>
      [] l = Str(<<"0", "1">>) -> <<"0", "1">>

\* The message "{name} < {limit}" of a predicate constructed as c.
Message(c) == Str(c.name.s \o <<" < ">> \o SuppliedText(c.limit))

ReturnedNone == outcome.kind = "return" /\ outcome.val = None
ReturnedValue(v) == outcome.kind = "return" /\ outcome.val = v
Raised(e) == outcome.kind = "raise" /\ outcome.val = e

----------------------------------------------------------------------------
(* delta_below: missing data                                               *)

\* C1: a delta_below predicate returns None on every call in which exactly
\* one of the two extractions fails with a catchable error and the other
\* succeeds.
C1_OneSidedFailureReturnsNone ==
    (/\ CalledDelta
     /\ \/ FailsCatchable(R1) /\ Succeeds(R0)
        \/ FailsCatchable(R0) /\ Succeeds(R1))
        => ReturnedNone

\* C2: when both extractions fail with a catchable error, the call raises
\* the error captured from the v0 extraction, unchanged.
C2_BothFailRaisesV0Error ==
    (CalledDelta /\ FailsCatchable(R1) /\ FailsCatchable(R0))
        => Raised(R0.exc)

\* Both extractions failed, with errors of different classes, and the call
\* raised.
C2_Witness ==
    /\ CalledDelta
    /\ FailsCatchable(R1)
    /\ FailsCatchable(R0)
    /\ R1.exc.cls # R0.exc.cls
    /\ outcome.kind = "raise"

\* What v1 and v0 are bound to after the two try blocks.
V1None == R1.raised \/ R1.v = None
V0None == R0.raised \/ R0.v = None
Captured == R1.raised \/ R0.raised
LastCaptured == IF R0.raised THEN R0.exc ELSE R1.exc
BothTriesEnd ==
    /\ R1.raised => R1.exc.cls \in Catchable
    /\ R0.raised => R0.exc.cls \in Catchable

----------------------------------------------------------------------------
(* value_below and delta_below: the comparison                             *)

RV == glom(info_vals, callee.spec, "v")

\* C4: a value_below predicate whose extraction yields the number v returns
\* the message "N < L", L as supplied, if v < L, and None if v >= L.
C4_ValueBelowThreshold ==
    (Called /\ callee.kind = "value_below" /\ SucceedsWithNumber(RV)) =>
        IF RV.v.n < ExpectedLimit(callee.limit)
        THEN ReturnedValue(Message(callee))
        ELSE ReturnedNone

\* A limit supplied as the string "01", a value below it, and the message
\* returned.
C4_Witness ==
    /\ Called
    /\ callee.kind = "value_below"
    /\ callee.limit = Str(<<"0", "1">>)
    /\ SucceedsWithNumber(RV)
    /\ RV.v.n < 1
    /\ outcome.kind = "return"
    /\ outcome.val # None

Delta == R1.v.n - R0.v.n

DeltaFires ==
    IF DeltaCfg(callee).absolute_value
    THEN Delta < ExpectedLimit(DeltaCfg(callee).limit)
         /\ (0 - Delta) < ExpectedLimit(DeltaCfg(callee).limit)
    ELSE Delta < ExpectedLimit(DeltaCfg(callee).limit)

\* C5: a delta_below predicate whose extractions yield the numbers v1 and v0
\* returns its message exactly when |v1 - v0| < L (absolute_value true) or
\* v1 - v0 < L (absolute_value false), and None otherwise.
C5_DeltaBelowThreshold ==
    (CalledDelta /\ SucceedsWithNumber(R1) /\ SucceedsWithNumber(R0)) =>
        IF DeltaFires
        THEN ReturnedValue(Message(DeltaCfg(callee)))
        ELSE ReturnedNone

\* With absolute_value true, a signed difference below the limit whose
\* magnitude is not, and None returned.
C5_Witness ==
    /\ CalledDelta
    /\ SucceedsWithNumber(R1)
    /\ SucceedsWithNumber(R0)
    /\ DeltaCfg(callee).absolute_value
    /\ Delta < ExpectedLimit(DeltaCfg(callee).limit)
    /\ ~DeltaFires
    /\ ReturnedNone

----------------------------------------------------------------------------
(* monotonicity checks                                                     *)

Last == info_vals[Len(info_vals)]
Previous == info_vals[Len(info_vals) - 1]

\* C6: on a series of at least two entries check_monotonic_error returns its
\* message when the last value is not smaller than the one before it, and
\* None when it is smaller.
C6_MonotonicErrorFires ==
    (Called /\ callee.kind = "check_monotonic_error" /\ Len(info_vals) >= 2) =>
        IF ~(Last.n < Previous.n)
        THEN ReturnedValue(Str(<<"Loss of monotonic convergence; error decrease",
                                 " < ", "0">>))
        ELSE ReturnedNone

\* C7: on a series of at least two entries check_monotonic_fidelity returns
\* its message when the last value is not larger than the one before it,
\* and None when it is larger.
C7_MonotonicFidelityFires ==
    (Called /\ callee.kind = "check_monotonic_fidelity" /\ Len(info_vals) >= 2) =>
        IF ~(Last.n > Previous.n)
        THEN ReturnedValue(Str(<<"Loss of monotonic convergence; fidelity increase",
                                 " < ", "0">>))
        ELSE ReturnedNone

----------------------------------------------------------------------------
(* Or                                                                      *)

CalledOr == Called /\ callee.kind = "Or"

\* What the i-th function of the Or called last yields on the Result.
FuncOut(i) == EvalFunc(callee.funcs[i], info_vals)

IsMessage(v) == v.t = "str" /\ Len(v.s) > 0
Fires(i) == FuncOut(i).kind = "return" /\ IsMessage(FuncOut(i).val)
Passes(i) == FuncOut(i).kind = "return" /\ ~IsMessage(FuncOut(i).val)
Throws(i) == FuncOut(i).kind = "raise"
UpTo(i) == [j \in 1..i |-> j]

\* C3: Or returns the result of the first function whose result is truthy,
\* having invoked the functions up to it in construction order and none
\* after it; if every result is falsy it invokes them all and returns None.
C3_OrReturnsFirstTruthy ==
    CalledOr =>
        /\ \A i \in 1..Len(callee.funcs) :
              (Fires(i) /\ \A j \in 1..(i - 1) : Passes(j)) =>
                  ReturnedValue(FuncOut(i).val) /\ invoked = UpTo(i)
        /\ (\A i \in 1..Len(callee.funcs) : Passes(i)) =>
              ReturnedNone /\ invoked = UpTo(Len(callee.funcs))

\* The first function fired, the second would have raised and was not
\* invoked.
C3_Witness ==
    /\ CalledOr
    /\ Len(callee.funcs) >= 2
    /\ Fires(1)
    /\ Throws(2)
    /\ invoked = <<1>>
    /\ outcome.kind = "return"

\* C8: if a function of Or raises and every function before it returned a
\* falsy result, Or raises that error unchanged and invokes no function
\* after it.
C8_OrPropagatesError ==
    CalledOr =>
        \A i \in 1..Len(callee.funcs) :
            (Throws(i) /\ \A j \in 1..(i - 1) : Passes(j)) =>
                outcome = FuncOut(i) /\ invoked = UpTo(i)

\* The first function raised, a second one was left uninvoked, and the call
\* raised.
C8_Witness ==
    /\ CalledOr
    /\ Len(callee.funcs) >= 2
    /\ Throws(1)
    /\ invoked = <<1>>
    /\ outcome.kind = "raise"

----------------------------------------------------------------------------
(* Predicates are pure                                                     *)

====
